---- MODULE Spec2Model ----
(***************************************************************************)
(* Model of agent_ide.core.execution.ExecutionEnvironment and of the       *)
(* Agent record it runs (agent_ide.core.agent).                            *)
(*                                                                         *)
(* Caller threads invoke execute_agent and stop_agent (in SpecReset also   *)
(* Agent.reset, in SpecRace from two threads at once) on one shared        *)
(* environment; every successful execute_agent starts a worker             *)
(* thread (a "unit") running _run_agent.  The environment takes no lock,   *)
(* so every access to shared state (a field of the agent's state, the      *)
(* dictionaries running_agents, stop_events and results, a stop event, a   *)
(* thread's liveness) is a step of its own, and the steps of all threads   *)
(* interleave freely.  Statements that touch only a thread's locals are    *)
(* folded into the neighbouring step.                                      *)
(*                                                                         *)
(* SpecProject models agent_ide.core.project.Project (create, load, save,  *)
(* add_agent, remove_agent on one project path) and SpecApp models         *)
(* agent_ide.agent.AgentApp.run with the operations of                     *)
(* agent_ide.operations; both are single-threaded.                         *)
(***************************************************************************)
EXTENDS Integers, FiniteSets, Sequences, TLC

\* ---------------------------------------------------------------- bounds
MaxUnits == 2        \* worker threads ever created
MaxCeiling == 2      \* largest max_iterations an agent is configured with
MaxCalls == 3        \* operations the callers ever invoke
MaxTimeout == 1      \* largest timeout an agent is configured with
MaxClock == 2        \* last tick of the clock

\* ------------------------------------------------------------- universes
Agents == {"a1", "a2"}
\* the caller threads of Spec and of SpecRace
SpecCallers == {"c1"}
RaceCallers == {"c1", "c2"}
Units == 1..MaxUnits
\* the agents the callers of Spec operate on, and the callbacks they pass
SpecAgents == {"a1"}
SpecCallbacks == {"none", "ok"}

NoUnit == 0          \* absent dictionary key / no thread
NoTime == -1         \* Optional[datetime] = None
NoError == 0         \* Optional[str] = None for error texts

\* Texts returned by _execute_agent_code, and None for "no output"
NoOutput == [kind |-> "None", n |-> 0]
NoCodeOutput == [kind |-> "No code to execute", n |-> 0]
StoppedOutput(i) == [kind |-> "Execution stopped at iteration", n |-> i]
SuccessOutput(m) == [kind |-> "Agent executed successfully for", n |-> m]

\* str(e) of the fault the task body raises on step k
FaultMessage(k) == k

VARIABLES
    state,           \* Agent.state of every agent
    config,          \* Agent.config.max_iterations, .timeout and Agent.code
    running_agents,  \* ExecutionEnvironment.running_agents: id -> thread
    stop_events,     \* ExecutionEnvironment.stop_events: id -> event
    results,         \* ExecutionEnvironment.results: id -> result object
    unit,            \* worker threads: position, arguments, locals
    result,          \* the ExecutionResult object a worker thread builds
    is_set,          \* the flag of the Event a worker thread was given
    caller,          \* caller threads: position, arguments, locals, outcome
    clock,           \* datetime.now()
    calls,           \* number of operations invoked so far
    sigStep,         \* history: where a unit was when its event was first set
    project,         \* the Project object in use: the keys of Project.agents
    files,           \* the project directory on disk
    last,            \* history: the latest operation on the project
    app              \* an AgentApp and the frame of its run()

vars == <<state, config, running_agents, stop_events, results, unit, result,
          is_set, caller, clock, calls, sigStep, project, files, last, app>>

\* AgentState() with the class defaults
AgentState ==
    [status |-> "idle", iteration_count |-> 0, start_time |-> NoTime,
     end_time |-> NoTime, error_message |-> NoError]

\* ExecutionResult(agent_id=..., success=False) with the class defaults
ExecutionResult(a) ==
    [agent_id |-> a, success |-> FALSE, output |-> NoOutput,
     error |-> NoError, duration |-> 0, iterations |-> 0]

NoResult == ExecutionResult("None")

\* a thread object that does not exist (yet): no frame, no arguments
NoThread ==
    [pc |-> "unused", agent |-> "None", callback |-> "none", i |-> 0,
     start_time |-> NoTime, output |-> NoOutput, error_msg |-> NoError,
     exc |-> "None"]

NoReturn == [op |-> "None", agent |-> "None", val |-> "None"]

\* values of sigStep: the event was never set, or it was first set after
\* the loop of _execute_agent_code had ended; otherwise sigStep is the
\* number of steps the unit had begun when the event was first set
NotSignalled == -1
SignalledLate == -2
InLoop(u) == unit[u].pc \in {"new", "r99", "x160", "x163"}

\* the caller threads of the behaviour
Callers == DOMAIN caller

\* a caller thread outside every operation
IdleCaller ==
    [pc |-> "idle", agent |-> "None", thread |-> NoUnit, callback |-> "none",
     ret |-> NoReturn]

\* threading.Thread.is_alive: started and not finished
is_alive(u) == unit[u].pc \notin {"unused", "new", "done"}

\* Agent.is_running
AgentIsRunning(a) == state[a].status = "running"

\* ExecutionEnvironment.is_running
is_running(a) == running_agents[a] # NoUnit

\* ExecutionEnvironment.get_result: the stored ExecutionResult object or None
get_result(a) == IF results[a] = NoUnit THEN NoResult ELSE result[results[a]]

\* ---------------------------------------------- Project and AgentApp data
\* the ids of the agents a project is given
AgentIds == {"a1", "a2", "a3"}

\* no Project object yet; otherwise object is TRUE and agents holds the keys
\* of Project.agents
NoProject == [object |-> FALSE, agents |-> {}]

\* the project path does not exist: neither agent_project.yaml nor any
\* agents/<id>.json
NoDirectory == [config_file |-> FALSE, agents |-> {}]

NoOperation == [op |-> "None", ret |-> "None"]

\* the characters of the texts, and str.upper on one character
Chars == {"h", "H"}
Upper(ch) == IF ch = "h" THEN "H" ELSE ch

MaxLen == 2          \* longest input_text
MaxOps == 2          \* longest list of operations

\* the strings of at most n characters
Texts(n) == UNION {[1..k -> Chars] : k \in 0..n}

\* an OperationConfig: type and params, params being a set of
\* <<key, value>> pairs; prefix takes the key "value", uppercase ignores it
OperationTypes == {"uppercase", "prefix", "lowercase"}
OperationParams == {{}, {<<"value", <<"h">>>>}}
OperationConfigs == [type : OperationTypes, params : OperationParams]

\* the keys of OPERATION_MAP (agent.py lines 6-9)
OPERATION_MAP == {"uppercase", "prefix"}

\* what run() has not produced yet; otherwise kind is "return" with the text
\* returned, or the name of the exception raised
NoOutcome == [kind |-> "None", text |-> <<>>]

\* an AgentApp that is never run
NoApp ==
    [input_text |-> <<>>, operations |-> <<>>, text |-> <<>>, i |-> 0,
     pc |-> "r23", ret |-> NoOutcome]

InitWith(cs) ==
    /\ state = [a \in Agents |-> AgentState]
    /\ config \in [Agents -> [max_iterations : 1..MaxCeiling,
                              timeout : 1..MaxTimeout,
                              code : {"", "code"}]]
    /\ \A a \in Agents : config[a].code = "" => config[a].max_iterations = 1
    /\ \A a \in Agents \ SpecAgents :
          config[a] = [max_iterations |-> 1, timeout |-> 1, code |-> "code"]
    /\ running_agents = [a \in Agents |-> NoUnit]
    /\ stop_events = [a \in Agents |-> NoUnit]
    /\ results = [a \in Agents |-> NoUnit]
    /\ unit = [u \in Units |-> NoThread]
    /\ result = [u \in Units |-> NoResult]
    /\ is_set = [u \in Units |-> FALSE]
    /\ caller = [c \in cs |-> IdleCaller]
    /\ clock = 0
    /\ calls = 0
    /\ sigStep = [u \in Units |-> NotSignalled]
    /\ project = NoProject
    /\ files = NoDirectory
    /\ last = NoOperation

Init == InitWith(SpecCallers) /\ app = NoApp

\* a caller's operation ends: it returns val or raises val
Return(c, op, a, val) ==
    caller' = [caller EXCEPT ![c] = [IdleCaller EXCEPT
                                       !.ret = [op |-> op, agent |-> a,
                                                val |-> val]]]

\* a caller enters an operation on agent a
Call(c, a, cb, label) ==
    caller' = [caller EXCEPT ![c] = [IdleCaller EXCEPT
                                       !.pc = label, !.agent = a,
                                       !.callback = cb]]

Goto(c, label) == caller' = [caller EXCEPT ![c].pc = label]

\* ------------------------------------------------------- execute_agent
FreeUnits == {u \in Units : unit[u].pc = "unused"}
NewUnit == CHOOSE u \in FreeUnits : \A v \in FreeUnits : u <= v
\* callers that passed the check of execute_agent and have no thread yet
Pending == {c \in Callers : caller[c].pc = "e42"}

\* lines 37-38: the check of agent.is_running()
execute_agent_check(c, a, cb) ==
    /\ caller[c].pc = "idle"
    /\ calls < MaxCalls
    /\ calls' = calls + 1
    /\ AgentIsRunning(a) \/ Cardinality(FreeUnits) > Cardinality(Pending)
    /\ IF AgentIsRunning(a)
          THEN Return(c, "execute", a, "RuntimeError")
          ELSE Call(c, a, cb, "e42")
    /\ UNCHANGED <<state, config, running_agents, stop_events, results, unit,
                   result, is_set, clock, sigStep>>
    /\ UNCHANGED <<project, files, last, app>>

\* lines 41-49: a new Event and a new (unstarted) Thread; the event is
\* published in stop_events
execute_agent_stop_event(c) ==
    /\ caller[c].pc = "e42"
    /\ FreeUnits # {}
    /\ LET u == NewUnit IN
       /\ stop_events' = [stop_events EXCEPT ![caller[c].agent] = u]
       /\ unit' = [unit EXCEPT ![u] = [NoThread EXCEPT
                                         !.pc = "new",
                                         !.agent = caller[c].agent,
                                         !.callback = caller[c].callback]]
       /\ caller' = [caller EXCEPT ![c].pc = "e51", ![c].thread = u]
    /\ UNCHANGED <<state, config, running_agents, results, result, is_set,
                   clock, calls, sigStep>>
    /\ UNCHANGED <<project, files, last, app>>

\* line 51
execute_agent_register(c) ==
    /\ caller[c].pc = "e51"
    /\ running_agents' = [running_agents EXCEPT
                            ![caller[c].agent] = caller[c].thread]
    /\ Goto(c, "e53")
    /\ UNCHANGED <<state, config, stop_events, results, unit, result, is_set,
                   clock, calls, sigStep>>
    /\ UNCHANGED <<project, files, last, app>>

\* lines 52-56: update_state sets the attributes one by one, in keyword order
execute_agent_status(c) ==
    /\ caller[c].pc = "e53"
    /\ state' = [state EXCEPT ![caller[c].agent].status = "running"]
    /\ Goto(c, "e54")
    /\ UNCHANGED <<config, running_agents, stop_events, results, unit, result,
                   is_set, clock, calls, sigStep>>
    /\ UNCHANGED <<project, files, last, app>>

execute_agent_start_time(c) ==
    /\ caller[c].pc = "e54"
    /\ state' = [state EXCEPT ![caller[c].agent].start_time = clock]
    /\ Goto(c, "e55")
    /\ UNCHANGED <<config, running_agents, stop_events, results, unit, result,
                   is_set, clock, calls, sigStep>>
    /\ UNCHANGED <<project, files, last, app>>

execute_agent_iteration_count(c) ==
    /\ caller[c].pc = "e55"
    /\ state' = [state EXCEPT ![caller[c].agent].iteration_count = 0]
    /\ Goto(c, "e58")
    /\ UNCHANGED <<config, running_agents, stop_events, results, unit, result,
                   is_set, clock, calls, sigStep>>
    /\ UNCHANGED <<project, files, last, app>>

\* lines 58-59: thread.start(); return agent.id
execute_agent_start(c) ==
    /\ caller[c].pc = "e58"
    /\ unit' = [unit EXCEPT ![caller[c].thread].pc = "r99"]
    /\ Return(c, "execute", caller[c].agent, caller[c].agent)
    /\ UNCHANGED <<state, config, running_agents, stop_events, results,
                   result, is_set, clock, calls, sigStep>>
    /\ UNCHANGED <<project, files, last, app>>

\* ---------------------------------------------------------- stop_agent
\* stop_agent with the membership test of line 63 made against stop_events
\* in place of running_agents
stop_agent_check_events(c, a) ==
    /\ caller[c].pc = "idle"
    /\ calls < MaxCalls
    /\ calls' = calls + 1
    /\ IF stop_events[a] = NoUnit
          THEN Return(c, "stop", a, "False")
          ELSE Call(c, a, "none", "s67")
    /\ UNCHANGED <<state, config, running_agents, stop_events, results, unit,
                   result, is_set, clock, sigStep>>
    /\ UNCHANGED <<project, files, last, app>>

\* lines 63-64
stop_agent_check(c, a) ==
    /\ caller[c].pc = "idle"
    /\ calls < MaxCalls
    /\ calls' = calls + 1
    /\ IF running_agents[a] = NoUnit
          THEN Return(c, "stop", a, "False")
          ELSE Call(c, a, "none", "s67")
    /\ UNCHANGED <<state, config, running_agents, stop_events, results, unit,
                   result, is_set, clock, sigStep>>
    /\ UNCHANGED <<project, files, last, app>>

\* line 67: if agent_id in self.stop_events
stop_agent_has_event(c) ==
    /\ caller[c].pc = "s67"
    /\ Goto(c, IF stop_events[caller[c].agent] # NoUnit THEN "s68" ELSE "s71")
    /\ UNCHANGED <<state, config, running_agents, stop_events, results, unit,
                   result, is_set, clock, calls, sigStep>>
    /\ UNCHANGED <<project, files, last, app>>

\* line 68: self.stop_events[agent_id].set(); the flag of an event whose
\* thread has finished is never read again and is not kept
stop_agent_set(c) ==
    /\ caller[c].pc = "s68"
    /\ LET e == stop_events[caller[c].agent] IN
       IF e = NoUnit
          THEN /\ Return(c, "stop", caller[c].agent, "KeyError")
               /\ UNCHANGED <<is_set, sigStep>>
          ELSE /\ is_set' = [is_set EXCEPT ![e] = unit[e].pc # "done"]
               /\ sigStep' = [sigStep EXCEPT
                                ![e] = IF is_set[e] \/ unit[e].pc = "done"
                                          THEN @
                                       ELSE IF InLoop(e) THEN unit[e].i
                                       ELSE SignalledLate]
               /\ Goto(c, "s71")
    /\ UNCHANGED <<state, config, running_agents, stop_events, results, unit,
                   result, clock, calls>>
    /\ UNCHANGED <<project, files, last, app>>

\* line 71: thread = self.running_agents[agent_id]
stop_agent_thread(c) ==
    /\ caller[c].pc = "s71"
    /\ IF running_agents[caller[c].agent] = NoUnit
          THEN Return(c, "stop", caller[c].agent, "KeyError")
          ELSE caller' = [caller EXCEPT
                            ![c].pc = "s72",
                            ![c].thread = running_agents[caller[c].agent]]
    /\ UNCHANGED <<state, config, running_agents, stop_events, results, unit,
                   result, is_set, clock, calls, sigStep>>
    /\ UNCHANGED <<project, files, last, app>>

\* lines 72-76: thread.join(timeout=5.0) raises on a thread that was never
\* started; otherwise it returns when the thread has finished or when the
\* grace period has elapsed, and thread.is_alive() tells which
stop_agent_join(c) ==
    /\ caller[c].pc = "s72"
    /\ IF unit[caller[c].thread].pc = "new"
          THEN Return(c, "stop", caller[c].agent, "RuntimeError")
          ELSE IF is_alive(caller[c].thread)
                  THEN Return(c, "stop", caller[c].agent, "False")
                  ELSE Goto(c, "s79")
    /\ UNCHANGED <<state, config, running_agents, stop_events, results, unit,
                   result, is_set, clock, calls, sigStep>>
    /\ UNCHANGED <<project, files, last, app>>

\* line 79: del self.running_agents[agent_id]
stop_agent_del_running(c) ==
    /\ caller[c].pc = "s79"
    /\ IF running_agents[caller[c].agent] = NoUnit
          THEN /\ Return(c, "stop", caller[c].agent, "KeyError")
               /\ UNCHANGED running_agents
          ELSE /\ running_agents' = [running_agents EXCEPT
                                       ![caller[c].agent] = NoUnit]
               /\ Goto(c, "s80")
    /\ UNCHANGED <<state, config, stop_events, results, unit, result, is_set,
                   clock, calls, sigStep>>
    /\ UNCHANGED <<project, files, last, app>>

\* line 80: if agent_id in self.stop_events (else line 83: return True)
stop_agent_has_event_del(c) ==
    /\ caller[c].pc = "s80"
    /\ IF stop_events[caller[c].agent] # NoUnit
          THEN Goto(c, "s81")
          ELSE Return(c, "stop", caller[c].agent, "True")
    /\ UNCHANGED <<state, config, running_agents, stop_events, results, unit,
                   result, is_set, clock, calls, sigStep>>
    /\ UNCHANGED <<project, files, last, app>>

\* lines 81-83: del self.stop_events[agent_id]; return True
stop_agent_del_event(c) ==
    /\ caller[c].pc = "s81"
    /\ IF stop_events[caller[c].agent] = NoUnit
          THEN /\ Return(c, "stop", caller[c].agent, "KeyError")
               /\ UNCHANGED stop_events
          ELSE /\ stop_events' = [stop_events EXCEPT
                                    ![caller[c].agent] = NoUnit]
               /\ Return(c, "stop", caller[c].agent, "True")
    /\ UNCHANGED <<state, config, running_agents, results, unit, result,
                   is_set, clock, calls, sigStep>>
    /\ UNCHANGED <<project, files, last, app>>

\* ---------------------------------------------------------- Agent.reset
\* Agent.reset that leaves the iteration counter as it is
reset_keeps_counter(c, a) ==
    /\ caller[c].pc = "idle"
    /\ calls < MaxCalls
    /\ calls' = calls + 1
    /\ state' = [state EXCEPT
                   ![a] = [AgentState EXCEPT
                             !.iteration_count = state[a].iteration_count]]
    /\ Return(c, "reset", a, "None")
    /\ UNCHANGED <<config, running_agents, stop_events, results, unit, result,
                   is_set, clock, sigStep>>
    /\ UNCHANGED <<project, files, last, app>>

\* agent.py lines 54-57: self.state = AgentState()
reset(c, a) ==
    /\ caller[c].pc = "idle"
    /\ calls < MaxCalls
    /\ calls' = calls + 1
    /\ state' = [state EXCEPT ![a] = AgentState]
    /\ Return(c, "reset", a, "None")
    /\ UNCHANGED <<config, running_agents, stop_events, results, unit, result,
                   is_set, clock, sigStep>>
    /\ UNCHANGED <<project, files, last, app>>

\* ----------------------------------------------------------- _run_agent
UGoto(u, label) == unit' = [unit EXCEPT ![u].pc = label]

\* the for statement of line 159 with loop variable i: the next check of the
\* stop event, or line 169 when the range is exhausted
LoopNext(th, a) ==
    IF th.i < config[a].max_iterations
       THEN [th EXCEPT !.pc = "x160"]
       ELSE [th EXCEPT !.pc = "r107",
                       !.output = SuccessOutput(config[a].max_iterations)]

\* lines 99-100 and 154-158: start_time, the fresh result, the code check
run_agent_begin(u) ==
    /\ unit[u].pc = "r99"
    /\ result' = [result EXCEPT ![u] = ExecutionResult(unit[u].agent)]
    /\ unit' = [unit EXCEPT ![u] =
                  IF config[unit[u].agent].code = ""
                     THEN [@ EXCEPT !.start_time = clock, !.pc = "r107",
                                    !.output = NoCodeOutput]
                     ELSE LoopNext([@ EXCEPT !.start_time = clock, !.i = 0],
                                   unit[u].agent)]
    /\ UNCHANGED <<state, config, running_agents, stop_events, results,
                   is_set, caller, clock, calls, sigStep>>
    /\ UNCHANGED <<project, files, last, app>>

\* lines 160-161 with the stop event consulted before the first step only
execute_agent_code_check_first_only(u) ==
    /\ unit[u].pc = "x160"
    /\ unit' = [unit EXCEPT ![u] =
                  IF is_set[u] /\ unit[u].i = 0
                     THEN [@ EXCEPT !.pc = "r107",
                                    !.output = StoppedOutput(unit[u].i)]
                     ELSE [@ EXCEPT !.pc = "x163"]]
    /\ UNCHANGED <<state, config, running_agents, stop_events, results,
                   result, is_set, caller, clock, calls, sigStep>>
    /\ UNCHANGED <<project, files, last, app>>

\* lines 160-161: if stop_event.is_set(): return the "stopped" text
execute_agent_code_check(u) ==
    /\ unit[u].pc = "x160"
    /\ unit' = [unit EXCEPT ![u] =
                  IF is_set[u]
                     THEN [@ EXCEPT !.pc = "r107",
                                    !.output = StoppedOutput(unit[u].i)]
                     ELSE [@ EXCEPT !.pc = "x163"]]
    /\ UNCHANGED <<state, config, running_agents, stop_events, results,
                   result, is_set, caller, clock, calls, sigStep>>
    /\ UNCHANGED <<project, files, last, app>>

\* the step with one iteration counter shared by all agents
execute_agent_code_step_shared(u, fault) ==
    /\ unit[u].pc = "x163"
    /\ state' = [b \in Agents |->
                   [state[b] EXCEPT !.iteration_count = unit[u].i + 1]]
    /\ IF fault
          THEN /\ unit' = [unit EXCEPT
                             ![u].i = @ + 1, ![u].pc = "r122",
                             ![u].error_msg = FaultMessage(unit[u].i + 1)]
               /\ result' = [result EXCEPT
                               ![u].error = FaultMessage(unit[u].i + 1)]
          ELSE /\ unit' = [unit EXCEPT
                             ![u] = LoopNext([@ EXCEPT !.i = @ + 1],
                                             unit[u].agent)]
               /\ UNCHANGED result
    /\ UNCHANGED <<config, running_agents, stop_events, results, is_set,
                   caller, clock, calls, sigStep>>
    /\ UNCHANGED <<project, files, last, app>>

\* lines 163-167: the counter is set to i + 1, then the step's work is done;
\* the work of the task body either completes or raises a fault, which
\* lines 116-120 catch (error_msg = str(e); result.error = error_msg)
execute_agent_code_step(u, fault) ==
    /\ unit[u].pc = "x163"
    /\ state' = [state EXCEPT
                   ![unit[u].agent].iteration_count = unit[u].i + 1]
    /\ IF fault
          THEN /\ unit' = [unit EXCEPT
                             ![u].i = @ + 1, ![u].pc = "r122",
                             ![u].error_msg = FaultMessage(unit[u].i + 1)]
               /\ result' = [result EXCEPT
                               ![u].error = FaultMessage(unit[u].i + 1)]
          ELSE /\ unit' = [unit EXCEPT
                             ![u] = LoopNext([@ EXCEPT !.i = @ + 1],
                                             unit[u].agent)]
               /\ UNCHANGED result
    /\ UNCHANGED <<config, running_agents, stop_events, results, is_set,
                   caller, clock, calls, sigStep>>
    /\ UNCHANGED <<project, files, last, app>>

\* lines 107-109
run_agent_success(u) ==
    /\ unit[u].pc = "r107"
    /\ result' = [result EXCEPT
                    ![u].success = TRUE,
                    ![u].output = unit[u].output,
                    ![u].iterations = state[unit[u].agent].iteration_count]
    /\ UGoto(u, "r112")
    /\ UNCHANGED <<state, config, running_agents, stop_events, results,
                   is_set, caller, clock, calls, sigStep>>
    /\ UNCHANGED <<project, files, last, app>>

\* lines 111-114: update_state(status="completed", end_time=now)
run_agent_completed_status(u) ==
    /\ unit[u].pc = "r112"
    /\ state' = [state EXCEPT ![unit[u].agent].status = "completed"]
    /\ UGoto(u, "r113")
    /\ UNCHANGED <<config, running_agents, stop_events, results, result,
                   is_set, caller, clock, calls, sigStep>>
    /\ UNCHANGED <<project, files, last, app>>

run_agent_completed_end_time(u) ==
    /\ unit[u].pc = "r113"
    /\ state' = [state EXCEPT ![unit[u].agent].end_time = clock]
    /\ UGoto(u, "r128")
    /\ UNCHANGED <<config, running_agents, stop_events, results, result,
                   is_set, caller, clock, calls, sigStep>>
    /\ UNCHANGED <<project, files, last, app>>

\* lines 121-125: update_state(status="error", error_message=..., end_time=now)
run_agent_error_status(u) ==
    /\ unit[u].pc = "r122"
    /\ state' = [state EXCEPT ![unit[u].agent].status = "error"]
    /\ UGoto(u, "r123")
    /\ UNCHANGED <<config, running_agents, stop_events, results, result,
                   is_set, caller, clock, calls, sigStep>>
    /\ UNCHANGED <<project, files, last, app>>

run_agent_error_message(u) ==
    /\ unit[u].pc = "r123"
    /\ state' = [state EXCEPT
                   ![unit[u].agent].error_message = unit[u].error_msg]
    /\ UGoto(u, "r124")
    /\ UNCHANGED <<config, running_agents, stop_events, results, result,
                   is_set, caller, clock, calls, sigStep>>
    /\ UNCHANGED <<project, files, last, app>>

run_agent_error_end_time(u) ==
    /\ unit[u].pc = "r124"
    /\ state' = [state EXCEPT ![unit[u].agent].end_time = clock]
    /\ UGoto(u, "r128")
    /\ UNCHANGED <<config, running_agents, stop_events, results, result,
                   is_set, caller, clock, calls, sigStep>>
    /\ UNCHANGED <<project, files, last, app>>

\* line 130 executed for successful runs only
run_agent_store_success_only(u) ==
    /\ unit[u].pc = "r128"
    /\ result' = [result EXCEPT
                    ![u].duration = clock - unit[u].start_time]
    /\ results' = IF result[u].success
                     THEN [results EXCEPT ![unit[u].agent] = u]
                     ELSE results
    /\ UGoto(u, "r133")
    /\ UNCHANGED <<state, config, running_agents, stop_events, is_set,
                   caller, clock, calls, sigStep>>
    /\ UNCHANGED <<project, files, last, app>>

\* lines 128-130: the duration, and the result object goes into results; the
\* object it replaces is dropped once no thread holds it
run_agent_store(u) ==
    /\ unit[u].pc = "r128"
    /\ result' = [v \in Units |->
                    IF v = u
                       THEN [result[u] EXCEPT
                               !.duration = clock - unit[u].start_time]
                    ELSE IF v = results[unit[u].agent] /\ unit[v].pc = "done"
                       THEN NoResult
                    ELSE result[v]]
    /\ results' = [results EXCEPT ![unit[u].agent] = u]
    /\ UGoto(u, "r133")
    /\ UNCHANGED <<state, config, running_agents, stop_events, is_set,
                   caller, clock, calls, sigStep>>
    /\ UNCHANGED <<project, files, last, app>>

\* line 133 with the deregistration of line 134 left out
run_agent_has_running_skip(u) ==
    /\ unit[u].pc = "r133"
    /\ UGoto(u, "r135")
    /\ UNCHANGED <<state, config, running_agents, stop_events, results,
                   result, is_set, caller, clock, calls, sigStep>>
    /\ UNCHANGED <<project, files, last, app>>

\* line 133: if agent.id in self.running_agents
run_agent_has_running(u) ==
    /\ unit[u].pc = "r133"
    /\ UGoto(u, IF running_agents[unit[u].agent] # NoUnit
                   THEN "r134" ELSE "r135")
    /\ UNCHANGED <<state, config, running_agents, stop_events, results,
                   result, is_set, caller, clock, calls, sigStep>>
    /\ UNCHANGED <<project, files, last, app>>

\* the thread ends, by returning (exc = "None") or by an exception that
\* leaves _run_agent; its frame and its event are dropped, and so is its
\* result object unless results holds it; the thread object keeps the agent
\* it was created for
Finish(u, exc) ==
    /\ unit' = [unit EXCEPT ![u] = [NoThread EXCEPT !.pc = "done",
                                                    !.exc = exc,
                                                    !.agent = unit[u].agent]]
    /\ is_set' = [is_set EXCEPT ![u] = FALSE]
    /\ sigStep' = [sigStep EXCEPT ![u] = NotSignalled]
    /\ result' = [result EXCEPT
                    ![u] = IF \E a \in Agents : results[a] = u
                              THEN @ ELSE NoResult]

\* line 134: del self.running_agents[agent.id]
run_agent_del_running(u) ==
    /\ unit[u].pc = "r134"
    /\ IF running_agents[unit[u].agent] = NoUnit
          THEN /\ Finish(u, "KeyError")
               /\ UNCHANGED running_agents
          ELSE /\ running_agents' = [running_agents EXCEPT
                                       ![unit[u].agent] = NoUnit]
               /\ UGoto(u, "r135")
               /\ UNCHANGED <<result, is_set, sigStep>>
    /\ UNCHANGED <<state, config, stop_events, results, caller, clock, calls>>
    /\ UNCHANGED <<project, files, last, app>>

\* line 135 with the removal of line 136 left out
run_agent_has_event_skip(u) ==
    /\ unit[u].pc = "r135"
    /\ UGoto(u, "r139")
    /\ UNCHANGED <<state, config, running_agents, stop_events, results,
                   result, is_set, caller, clock, calls, sigStep>>
    /\ UNCHANGED <<project, files, last, app>>

\* line 135: if agent.id in self.stop_events
run_agent_has_event(u) ==
    /\ unit[u].pc = "r135"
    /\ UGoto(u, IF stop_events[unit[u].agent] # NoUnit
                   THEN "r136" ELSE "r139")
    /\ UNCHANGED <<state, config, running_agents, stop_events, results,
                   result, is_set, caller, clock, calls, sigStep>>
    /\ UNCHANGED <<project, files, last, app>>

\* line 136: del self.stop_events[agent.id]
run_agent_del_event(u) ==
    /\ unit[u].pc = "r136"
    /\ IF stop_events[unit[u].agent] = NoUnit
          THEN /\ Finish(u, "KeyError")
               /\ UNCHANGED stop_events
          ELSE /\ stop_events' = [stop_events EXCEPT
                                    ![unit[u].agent] = NoUnit]
               /\ UGoto(u, "r139")
               /\ UNCHANGED <<result, is_set, sigStep>>
    /\ UNCHANGED <<state, config, running_agents, results, caller, clock, calls>>
    /\ UNCHANGED <<project, files, last, app>>

\* line 139: if callback; line 141 calls it
run_agent_has_callback(u) ==
    /\ unit[u].pc = "r139"
    /\ IF unit[u].callback = "none"
          THEN Finish(u, "None")
          ELSE /\ UGoto(u, "r141")
               /\ UNCHANGED <<result, is_set, sigStep>>
    /\ UNCHANGED <<state, config, running_agents, stop_events, results,
                   caller, clock, calls>>
    /\ UNCHANGED <<project, files, last, app>>

\* lines 140-141: callback(agent, result) returns, and _run_agent with it,
\* or it raises and line 142 catches the exception
run_agent_callback(u, raises) ==
    /\ unit[u].pc = "r141"
    /\ IF raises
          THEN /\ UGoto(u, "r143")
               /\ UNCHANGED <<result, is_set, sigStep>>
          ELSE Finish(u, "None")
    /\ UNCHANGED <<state, config, running_agents, stop_events, results,
                   caller, clock, calls>>
    /\ UNCHANGED <<project, files, last, app>>

\* the callback's exception not caught: it leaves _run_agent
run_agent_callback_failed_uncaught(u) ==
    /\ unit[u].pc = "r143"
    /\ Finish(u, "Exception")
    /\ UNCHANGED <<state, config, running_agents, stop_events, results,
                   caller, clock, calls>>
    /\ UNCHANGED <<project, files, last, app>>

\* lines 142-143: the exception of the callback is logged, _run_agent returns
run_agent_callback_failed(u) ==
    /\ unit[u].pc = "r143"
    /\ Finish(u, "None")
    /\ UNCHANGED <<state, config, running_agents, stop_events, results,
                   caller, clock, calls>>
    /\ UNCHANGED <<project, files, last, app>>

\* ------------------------------------------------------- specification
\* the steps of a caller inside execute_agent
ExecuteProgress(c) ==
    \/ execute_agent_stop_event(c)
    \/ execute_agent_register(c)
    \/ execute_agent_status(c)
    \/ execute_agent_start_time(c)
    \/ execute_agent_iteration_count(c)
    \/ execute_agent_start(c)

\* the steps of a caller inside execute_agent and stop_agent
CallerProgress(c) ==
    \/ ExecuteProgress(c)
    \/ stop_agent_has_event(c)
    \/ stop_agent_set(c)
    \/ stop_agent_thread(c)
    \/ stop_agent_join(c)
    \/ stop_agent_del_running(c)

CallerStep(c) ==
    \/ \E a \in SpecAgents, cb \in SpecCallbacks : execute_agent_check(c, a, cb)
    \/ \E a \in SpecAgents : stop_agent_check(c, a)
    \/ CallerProgress(c)

\* lines 80-83 of stop_agent are reached only when line 79 finds the id in
\* running_agents after the joined thread has ended, that is, when another
\* caller has registered a new thread in the meantime
CallerStepRace(c) ==
    \/ stop_agent_has_event_del(c)
    \/ stop_agent_del_event(c)

\* the steps of a worker thread up to the invocation of its callback
UnitProgress(u) ==
    \/ run_agent_begin(u)
    \/ execute_agent_code_check(u)
    \/ \E fault \in BOOLEAN : execute_agent_code_step(u, fault)
    \/ run_agent_success(u)
    \/ run_agent_completed_status(u)
    \/ run_agent_completed_end_time(u)
    \/ run_agent_error_status(u)
    \/ run_agent_error_message(u)
    \/ run_agent_error_end_time(u)
    \/ run_agent_store(u)
    \/ run_agent_has_running(u)
    \/ run_agent_del_running(u)
    \/ run_agent_has_event(u)
    \/ run_agent_del_event(u)
    \/ run_agent_has_callback(u)

UnitStep(u) ==
    \/ UnitProgress(u)
    \/ \E raises \in BOOLEAN : run_agent_callback(u, raises)
    \/ run_agent_callback_failed(u)

Next ==
    \/ \E c \in Callers : CallerStep(c)
    \/ \E u \in Units : UnitStep(u)

\* one caller thread that uses the environment: execute_agent and stop_agent
Spec == Init /\ [][Next]_vars

\* the caller thread also resets the agent record
NextReset ==
    \/ Next
    \/ \E c \in Callers, a \in SpecAgents : reset(c, a)

SpecReset == Init /\ [][NextReset]_vars

\* two caller threads that use the environment concurrently
InitRace == InitWith(RaceCallers) /\ app = NoApp

NextRace ==
    \/ Next
    \/ \E c \in Callers : CallerStepRace(c)

SpecRace == InitRace /\ [][NextRace]_vars

\* two caller threads, each executing and stopping an agent of its own,
\* without callbacks
CallerAgent == ("c1" :> "a1") @@ ("c2" :> "a2")

CallerStepPair(c) ==
    \/ execute_agent_check(c, CallerAgent[c], "none")
    \/ stop_agent_check(c, CallerAgent[c])
    \/ CallerProgress(c)

NextPair ==
    \/ \E c \in Callers : CallerStepPair(c)
    \/ \E u \in Units : UnitProgress(u)

SpecPair == InitRace /\ [][NextPair]_vars

\* time passes: datetime.now() advances
Tick ==
    /\ clock < MaxClock
    /\ clock' = clock + 1
    /\ UNCHANGED <<state, config, running_agents, stop_events, results, unit,
                   result, is_set, caller, calls, sigStep>>
    /\ UNCHANGED <<project, files, last, app>>

\* one caller thread that only executes, never stops, while time passes
NextClock ==
    \/ \E c \in Callers, a \in SpecAgents, cb \in SpecCallbacks :
          execute_agent_check(c, a, cb)
    \/ \E c \in Callers : ExecuteProgress(c)
    \/ \E u \in Units : UnitStep(u)
    \/ Tick

SpecClock == Init /\ [][NextClock]_vars

\* the threads are scheduled fairly: a worker thread that can take a step
\* takes one, its callback returns or raises, and a caller inside
\* execute_agent or stop_agent goes on (join waits at most 5 seconds)
Fairness ==
    /\ \A u \in Units : WF_vars(UnitStep(u))
    /\ \A c \in SpecCallers : WF_vars(CallerProgress(c))

MaxFairCalls == 2    \* operations the caller of SpecFair ever invokes

\* the caller of Spec, invoking at most MaxFairCalls operations
NextFair ==
    \/ \E c \in Callers, a \in SpecAgents, cb \in SpecCallbacks :
          calls < MaxFairCalls /\ execute_agent_check(c, a, cb)
    \/ \E c \in Callers, a \in SpecAgents :
          calls < MaxFairCalls /\ stop_agent_check(c, a)
    \/ \E c \in Callers : CallerProgress(c)
    \/ \E u \in Units : UnitStep(u)

SpecFair == Init /\ [][NextFair]_vars /\ Fairness

\* ----------------------------------------------------------------- Project
\* the variables of the execution environment
environment ==
    <<state, config, running_agents, stop_events, results, unit, result,
      is_set, caller, clock, calls, sigStep>>

\* project.py lines 70-95: Project.save writes agent_project.yaml and one
\* agents/<id>.json per agent in self.agents; it removes no file
save(agents) ==
    [config_file |-> TRUE, agents |-> files.agents \cup agents]

\* lines 34-42: Project.create makes the directory if it is not there,
\* constructs a project without agents and saves it
Project_create ==
    /\ project' = [object |-> TRUE, agents |-> {}]
    /\ files' = save({})
    /\ last' = [op |-> "create", ret |-> "None"]
    /\ UNCHANGED <<environment, app>>

\* lines 44-68: Project.load raises when agent_project.yaml is missing, and
\* otherwise returns a project with one agent per agents/*.json, under the
\* id the file holds, which is the id the file is named after
Project_load ==
    /\ IF files.config_file
          THEN /\ project' = [object |-> TRUE, agents |-> files.agents]
               /\ last' = [op |-> "load", ret |-> "None"]
          ELSE /\ last' = [op |-> "load", ret |-> "FileNotFoundError"]
               /\ UNCHANGED project
    /\ UNCHANGED <<files, environment, app>>

Project_save ==
    /\ project.object
    /\ files' = save(project.agents)
    /\ last' = [op |-> "save", ret |-> "None"]
    /\ UNCHANGED <<project, environment, app>>

\* lines 97-100
Project_add_agent(a) ==
    /\ project.object
    /\ project' = [project EXCEPT !.agents = @ \cup {a}]
    /\ last' = [op |-> "add_agent", ret |-> "None"]
    /\ UNCHANGED <<files, environment, app>>

\* lines 102-110: an id that is not in self.agents is left alone, on disk too
Project_remove_agent(a) ==
    /\ project.object
    /\ IF a \in project.agents
          THEN /\ project' = [project EXCEPT !.agents = @ \ {a}]
               /\ files' = [files EXCEPT !.agents = @ \ {a}]
          ELSE UNCHANGED <<project, files>>
    /\ last' = [op |-> "remove_agent", ret |-> "None"]
    /\ UNCHANGED <<environment, app>>

NextProject ==
    \/ Project_create
    \/ Project_load
    \/ Project_save
    \/ \E a \in AgentIds : Project_add_agent(a)
    \/ \E a \in AgentIds : Project_remove_agent(a)

\* a program that creates, loads, changes and saves the project of one path,
\* one Project object at a time; the execution environment is not used
InitProject ==
    /\ Init
    /\ \A a \in Agents :
          config[a] = [max_iterations |-> 1, timeout |-> 1, code |-> "code"]

SpecProject == InitProject /\ [][NextProject]_vars

\* ---------------------------------------------------------------- AgentApp
\* operations.py lines 3-5: text.upper(); the keyword arguments are ignored
uppercase(text) == [k \in 1..Len(text) |-> Upper(text[k])]

\* operations.py lines 8-10: f"{value}{text}", value defaulting to ""
prefix(text, params) ==
    LET given == {p \in params : p[1] = "value"} IN
    IF given = {} THEN text ELSE (CHOOSE p \in given : TRUE)[2] \o text

\* agent.py line 28: func(text, **op.params) for the func of a known type
Apply(op, text) ==
    IF op.type = "uppercase" THEN uppercase(text) ELSE prefix(text, op.params)

\* agent.py line 23 with the operations applied to input_text every time
AgentApp_run_op_on_input ==
    /\ app.pc = "r24"
    /\ app.i <= Len(app.operations)
    /\ LET op == app.operations[app.i] IN
       IF op.type \notin OPERATION_MAP
          THEN app' = [app EXCEPT !.pc = "done",
                                  !.ret = [kind |-> "ValueError",
                                           text |-> <<>>]]
          ELSE app' = [app EXCEPT !.text = Apply(op, app.input_text),
                                  !.i = @ + 1]
    /\ UNCHANGED <<environment, project, files, last>>

\* agent.py line 23: text = self.config.input_text
AgentApp_run_begin ==
    /\ app.pc = "r23"
    /\ app' = [app EXCEPT !.pc = "r24", !.text = app.input_text, !.i = 1]
    /\ UNCHANGED <<environment, project, files, last>>

\* lines 24-28: one turn of the loop over self.config.operations
AgentApp_run_op ==
    /\ app.pc = "r24"
    /\ app.i <= Len(app.operations)
    /\ LET op == app.operations[app.i] IN
       IF op.type \notin OPERATION_MAP
          THEN app' = [app EXCEPT !.pc = "done",
                                  !.ret = [kind |-> "ValueError",
                                           text |-> <<>>]]
          ELSE app' = [app EXCEPT !.text = Apply(op, app.text), !.i = @ + 1]
    /\ UNCHANGED <<environment, project, files, last>>

\* line 29: return text
AgentApp_run_return ==
    /\ app.pc = "r24"
    /\ app.i > Len(app.operations)
    /\ app' = [app EXCEPT !.pc = "done",
                          !.ret = [kind |-> "return", text |-> app.text]]
    /\ UNCHANGED <<environment, project, files, last>>

NextApp ==
    \/ AgentApp_run_begin
    \/ AgentApp_run_op
    \/ AgentApp_run_return

\* an AgentApp with any configuration of at most MaxOps operations and an
\* input_text of at most MaxLen characters is run once
InitApp ==
    /\ InitWith(SpecCallers)
    /\ \A a \in Agents :
          config[a] = [max_iterations |-> 1, timeout |-> 1, code |-> "code"]
    /\ \E t \in Texts(MaxLen),
          ops \in UNION {[1..n -> OperationConfigs] : n \in 0..MaxOps} :
          app = [NoApp EXCEPT !.input_text = t, !.operations = ops]

SpecApp == InitApp /\ [][NextApp]_vars

\* ---------------------------------------------------------------- claims
\* a unit that has stored its result and has not finished yet; result[u] is
\* the object it stored
Stored(u) ==
    unit[u].pc \in {"r133", "r134", "r135", "r136", "r139", "r141", "r143"}

\* the live units of an agent: started and not finished worker threads
LiveUnits(a) == {u \in Units : is_alive(u) /\ unit[u].agent = a}

\* the step with which caller c invokes operation op on agent a
Invokes(c, op, a) ==
    /\ caller[c].pc = "idle"
    /\ calls' = calls + 1
    /\ \A d \in Callers \ {c} : caller'[d] = caller[d]
    /\ \/ caller'[c].pc # "idle" /\ caller'[c].agent = a
       \/ caller'[c].pc = "idle" /\ caller'[c].ret.agent = a
    /\ \/ caller'[c].pc = "idle" /\ caller'[c].ret.op = op
       \/ op = "execute" /\ caller'[c].pc = "e42"
       \/ op = "stop" /\ caller'[c].pc = "s67"

\* C1: in every reachable state each agent has at most one live unit
C1_AtMostOneLiveUnit ==
    \A a \in Agents : Cardinality(LiveUnits(a)) <= 1

\* C2: execute_agent invoked while a unit of the agent is live fails with
\* RuntimeError, and invoked when no unit of the agent is live (the prior run
\* has ended) it passes the check and goes on to start a new run
C2_ExecuteFailsIffLive ==
    [][\A c \in Callers, a \in Agents :
         Invokes(c, "execute", a) =>
            IF LiveUnits(a) # {}
               THEN caller'[c].ret
                       = [op |-> "execute", agent |-> a, val |-> "RuntimeError"]
               ELSE caller'[c].pc = "e42"]_vars

\* C3: when execute_agent returns the agent id, the agent is running with
\* iteration counter 0 and a start timestamp, and its id is in running_agents
\* and in stop_events with an event that is not set
C3_ExecuteReturnsRunning ==
    [][\A c \in Callers :
         caller[c].pc = "e58" /\ caller'[c].pc = "idle" =>
            LET a == caller[c].agent IN
            /\ caller'[c].ret = [op |-> "execute", agent |-> a, val |-> a]
            /\ state'[a].status = "running"
            /\ state'[a].iteration_count = 0
            /\ state'[a].start_time # NoTime
            /\ running_agents'[a] # NoUnit
            /\ stop_events'[a] # NoUnit
            /\ ~is_set'[stop_events'[a]]]_vars

\* C4: stop_agent on an id with a live unit sets that unit's event before it
\* waits for the thread, and when the thread has finished within the grace
\* period it returns True with the id gone from running_agents
C4_StopCancelsLiveUnit ==
    [][\A c \in Callers :
         /\ caller[c].pc = "s71" /\ caller'[c].pc = "s72" =>
               (is_alive(caller'[c].thread) => is_set[caller'[c].thread])
         /\ caller[c].pc \in {"s79", "s80", "s81"} /\ caller'[c].pc = "idle" =>
               /\ caller'[c].ret.val = "True"
               /\ running_agents'[caller[c].agent] = NoUnit]_vars

\* C5: stop_agent invoked with an id that is not in running_agents returns
\* False and changes neither running_agents, stop_events, the events,
\* results nor any agent's state
C5_StopUnknownIsNoop ==
    [][\A c \in Callers, a \in Agents :
         Invokes(c, "stop", a) /\ running_agents[a] = NoUnit =>
            /\ caller'[c].ret = [op |-> "stop", agent |-> a, val |-> "False"]
            /\ UNCHANGED <<running_agents, stop_events, is_set, results,
                           result, state>>]_vars

\* C5 witness: the only operation invoked so far is a stop_agent that
\* returned False, on an id that is not in running_agents
C5_Witness ==
    \E c \in Callers, a \in Agents :
       /\ calls = 1
       /\ caller[c].ret = [op |-> "stop", agent |-> a, val |-> "False"]
       /\ running_agents[a] = NoUnit

\* C6: when stop_agent returns False because the thread it waited for is
\* still alive, that thread is still in running_agents
C6_StopTimeoutKeepsRegistered ==
    [][\A c \in Callers :
         /\ caller[c].pc = "s72"
         /\ caller'[c].ret
               = [op |-> "stop", agent |-> caller[c].agent, val |-> "False"]
         => running_agents'[caller[c].agent] = caller[c].thread]_vars

\* C7: when a run with a non-empty task body that was neither cancelled nor
\* faulted terminates, the agent's iteration counter is the ceiling and the
\* run's stored result has success, the ceiling as iterations and no error
C7_CompletedRunReachesCeiling ==
    [][\A u \in Units :
         /\ Stored(u) /\ unit'[u].pc = "done"
         /\ config[unit[u].agent].code # ""
         /\ sigStep[u] = NotSignalled
         /\ result[u].error = NoError
         => LET a == unit[u].agent IN
            /\ state'[a].iteration_count = config[a].max_iterations
            /\ result[u].success
            /\ result[u].iterations = config[a].max_iterations
            /\ result[u].error = NoError]_vars

\* C8: a unit with a non-empty task body whose event was set before it began
\* any step stores a result with success False and 0 iterations
C8_CancelBeforeFirstStep ==
    \A u \in Units :
       /\ Stored(u)
       /\ config[unit[u].agent].code # ""
       /\ sigStep[u] = 0
       => ~result[u].success /\ result[u].iterations = 0

\* C9: a unit whose event was set after its first step began and before its
\* loop ended stores a result with 0 < iterations < ceiling, and has put the
\* agent's status to a terminal value
C9_CancelMidRun ==
    \A u \in Units :
       Stored(u) /\ sigStep[u] >= 1 =>
          /\ 0 < result[u].iterations
          /\ result[u].iterations < config[unit[u].agent].max_iterations
          /\ state[unit[u].agent].status \in {"completed", "error"}

\* C10: a unit whose task body raised on step k stores a result with success
\* False, the fault's message as error and k - 1 iterations, and has put the
\* agent's status to error
C10_FaultOnStepK ==
    \A u \in Units :
       Stored(u) /\ result[u].error # NoError =>
          LET k == unit[u].i IN
          /\ ~result[u].success
          /\ result[u].error = FaultMessage(k)
          /\ result[u].iterations = k - 1
          /\ state[unit[u].agent].status = "error"

\* the steps with which unit u leaves lines 133-134: its id is out of
\* running_agents from here on
Deregisters(u) ==
    /\ unit[u].pc \in {"r133", "r134"}
    /\ unit'[u].pc = "r135"

\* C11: when a unit deregisters, the agent's status is completed or error
\* and its end timestamp is set; and in every reachable state an agent whose
\* status is running has a thread that was created for it and has not ended
C11_TerminalStateBeforeDeregister ==
    /\ [][\A u \in Units :
            Deregisters(u) =>
               /\ state[unit[u].agent].status \in {"completed", "error"}
               /\ state[unit[u].agent].end_time # NoTime]_vars
    /\ [](\A a \in Agents :
            AgentIsRunning(a) =>
               \E u \in Units : /\ unit[u].agent = a
                                /\ unit[u].pc \notin {"unused", "done"})

\* the step with which unit u invokes its callback (lines 139-141)
InvokesCallback(u) ==
    /\ unit[u].pc = "r139"
    /\ unit'[u].pc = "r141"

\* C12: a unit started with a callback invokes it before its thread ends, and
\* it invokes it with its result object in results and with the agent's id
\* out of running_agents; a unit started without a callback invokes nothing
C12_CallbackOnceAfterBookkeeping ==
    [][\A u \in Units :
         /\ InvokesCallback(u) =>
               /\ unit[u].callback # "none"
               /\ results[unit[u].agent] = u
               /\ running_agents[unit[u].agent] = NoUnit
         /\ is_alive(u) /\ unit'[u].pc = "done" =>
               (unit[u].callback # "none"
                   <=> unit[u].pc \in {"r141", "r143"})]_vars

\* C13: the steps of a callback that raises (the raise caught at line 142
\* and the logging of line 143) leave results, the stored result objects,
\* running_agents, stop_events and every agent's state as they are, as the
\* step of a callback that returns does; the thread ends without an
\* exception and no caller is affected
C13_CallbackFailureIsolated ==
    [][\A u \in Units :
         unit[u].pc \in {"r141", "r143"} /\ unit'[u] # unit[u] =>
            /\ UNCHANGED <<results, running_agents, stop_events, state, caller>>
            /\ \A a \in Agents :
                  results[a] # NoUnit => result'[results[a]] = result[results[a]]
            /\ unit'[u].pc = "done" => unit'[u].exc = "None"]_vars

\* C13 witness: a callback has raised, with the unit's result stored and the
\* agent deregistered
C13_Witness ==
    \E u \in Units :
       /\ unit[u].pc = "r143"
       /\ results[unit[u].agent] = u
       /\ running_agents[unit[u].agent] = NoUnit
       /\ state[unit[u].agent].status = "completed"

\* a thread created for agent a that has not stored its result yet
BeforeStore(u, a) ==
    /\ unit[u].agent = a
    /\ unit[u].pc \in {"new", "r99", "x160", "x163", "r107", "r112", "r113",
                       "r122", "r123", "r124", "r128"}

\* the runs of agent a begun before unit v (units are numbered in the order
\* of their creation)
EarlierRuns(v, a) == {u \in 1..(v - 1) : unit[u].agent = a}

\* C14: the result held for an agent is replaced only by the result of a
\* later run, stored by that run after its terminal status; and from the
\* creation of a further run's thread until that run stores its result,
\* results holds the result of the latest earlier run
C14_ResultKeptUntilNextRunEnds ==
    /\ [][\A a \in Agents :
            results[a] # NoUnit /\ results'[a] # results[a] =>
               /\ results'[a] > results[a]
               /\ unit[results'[a]].pc = "r128"
               /\ state[a].status \in {"completed", "error"}]_vars
    /\ [](\A a \in Agents, v \in Units :
            BeforeStore(v, a) /\ EarlierRuns(v, a) # {} =>
               /\ results[a] \in EarlierRuns(v, a)
               /\ \A u \in EarlierRuns(v, a) : u <= results[a])

\* the units of agent a that have executed line 130
HasStored(a) ==
    {u \in Units : unit[u].agent = a /\ (Stored(u) \/ unit[u].pc = "done")}

\* the step with which unit u executes lines 128-130
Stores(u) ==
    /\ unit[u].pc = "r128"
    /\ unit'[u].pc = "r133"

\* C15 as stated: get_result returns None for an agent none of whose threads
\* has ended, and the result of a run of that agent otherwise
C15_ResultOfLatestTerminatedRun ==
    \A a \in Agents :
       IF \A u \in Units : unit[u].agent = a => unit[u].pc # "done"
          THEN get_result(a) = NoResult
          ELSE get_result(a).agent_id = a

\* C15 amended: get_result returns None exactly for the agents none of whose
\* runs has stored its result (line 130); the step that stores makes
\* get_result return the unit's result object, with the agent's id and the
\* success, output, error and iterations the unit had set and the duration
\* it measured; and what get_result returns stays equal in every field
\* until a run stores again
C15_ResultOfLatestStoredRun ==
    /\ [](\A a \in Agents : get_result(a) = NoResult <=> HasStored(a) = {})
    /\ [][\A u \in Units :
            Stores(u) =>
               LET a == unit[u].agent IN
               /\ get_result(a)' = result'[u]
               /\ result'[u] = [result[u] EXCEPT
                                   !.duration = clock - unit[u].start_time]
               /\ result'[u].agent_id = a]_vars
    /\ [][\A a \in Agents :
            results'[a] = results[a] => get_result(a)' = get_result(a)]_vars

\* C15 witness: get_result returns the result of a run that has ended after
\* all its steps
C15_Witness ==
    \E a \in Agents :
       /\ results[a] # NoUnit
       /\ unit[results[a]].pc = "done"
       /\ get_result(a) = [agent_id |-> a, success |-> TRUE,
                           output |-> SuccessOutput(config[a].max_iterations),
                           error |-> NoError, duration |-> 0,
                           iterations |-> config[a].max_iterations]

\* the status changes of the agent state machine: execute, normal or
\* cancelled finish, fault, reset
StatusTransitions ==
    {<<"idle", "running">>, <<"running", "completed">>,
     <<"running", "error">>, <<"completed", "idle">>, <<"error", "idle">>}

\* C16: every change of an agent's status is idle to running, running to
\* completed, running to error, or completed or error to idle
C16_StatusTransitions ==
    [][\A a \in Agents :
         state'[a].status # state[a].status =>
            <<state[a].status, state'[a].status>> \in StatusTransitions]_vars

\* C17: an agent's status becomes idle only by a step of reset, and a reset
\* invoked while a unit of the agent is live leaves the agent's state as it
\* is, so that execute_agent still fails
C17_ResetOnlyWhenNotLive ==
    [][\A a \in Agents :
         /\ state'[a].status = "idle" /\ state[a].status # "idle" =>
               \E c \in Callers : Invokes(c, "reset", a)
         /\ \A c \in Callers :
               Invokes(c, "reset", a) /\ LiveUnits(a) # {} =>
                  /\ state'[a] = state[a]
                  /\ AgentIsRunning(a)']_vars

\* C18: an agent's iteration counter changes only by rising by one, or by
\* being set to zero by execute_agent (line 55); every step of a unit raises
\* it by exactly one; and it is zero when execute_agent starts the thread
C18_CounterRisesByOne ==
    [][\A a \in Agents :
         /\ state'[a].iteration_count # state[a].iteration_count =>
               \/ state'[a].iteration_count = state[a].iteration_count + 1
               \/ /\ state'[a].iteration_count = 0
                  /\ \E c \in Callers : /\ caller[c].pc = "e55"
                                        /\ caller[c].agent = a
                                        /\ caller'[c].pc = "e58"
         /\ \A u \in Units :
               unit[u].pc = "x163" /\ unit[u].agent = a /\ unit'[u] # unit[u] =>
                  state'[a].iteration_count = state[a].iteration_count + 1
         /\ \A c \in Callers :
               caller[c].pc = "e58" /\ caller[c].agent = a
                                    /\ caller'[c].pc = "idle" =>
                  state'[a].iteration_count = 0]_vars

\* the part of the shared state that belongs to agent b
AgentView(b) ==
    <<state[b], running_agents[b], stop_events[b], results[b], get_result(b),
      {<<u, unit[u], is_set[u]>> : u \in {v \in Units : unit[v].agent = b}}>>

\* the agent a step works on: the agent of the unit that moves, or of the
\* operation the moving caller is in or invokes
StepAgents ==
    {unit[u].agent : u \in {v \in Units : unit'[v] # unit[v]
                                          /\ unit[v].pc # "unused"}}
    \cup {caller[c].agent : c \in {d \in Callers : caller'[d] # caller[d]
                                                   /\ caller[d].pc # "idle"}}
    \cup {caller'[c].agent : c \in {d \in Callers : caller'[d] # caller[d]
                                                    /\ caller'[d].pc # "idle"}}

\* C19: with an agent executed by each of two callers, a step of one agent's
\* run, start or stop leaves everything of the other agent as it is, and
\* the result a unit stores carries its own agent's id, the number of steps
\* this unit has taken and the message of this unit's own fault
C19_AgentsIndependent ==
    /\ [][\A b \in Agents :
            AgentView(b)' # AgentView(b) => StepAgents = {b}]_vars
    /\ [](\A u \in Units :
            Stored(u) =>
               /\ result[u].agent_id = unit[u].agent
               /\ result[u].success => result[u].iterations = unit[u].i
               /\ result[u].error \in {NoError, FaultMessage(unit[u].i)}
               /\ results[unit[u].agent] # NoUnit
               /\ get_result(unit[u].agent).agent_id = unit[u].agent)

\* C19 witness: both agents have a stored result, the one after a fault and
\* the other after two steps
C19_Witness ==
    /\ get_result("a1").iterations = 2
    /\ get_result("a1").error = NoError
    /\ get_result("a2").error = FaultMessage(1)
    /\ state["a1"].iteration_count = 2
    /\ state["a2"].iteration_count = 1

\* C20: no unit stays alive past its agent's timeout, counted from the start
\* time it recorded (line 99), without its stop event being set
C20_TimeoutCancelsUnit ==
    \A u \in Units :
       /\ is_alive(u)
       /\ unit[u].start_time # NoTime
       /\ clock - unit[u].start_time > config[unit[u].agent].timeout
       => is_set[u]

\* C21: a unit whose event was set while it was in its loop, after it had
\* begun k steps, begins at most one step more, whatever its ceiling: it
\* never has begun more than k + 1 steps, and while it is in the loop the
\* agent's iteration counter is at most k + 1
C21_OneStepAfterSignal ==
    \A u \in Units :
       sigStep[u] >= 0 =>
          /\ unit[u].i <= sigStep[u] + 1
          /\ InLoop(u) =>
                state[unit[u].agent].iteration_count <= sigStep[u] + 1

\* C21 witness: a unit with ceiling 2 whose event was set before its first
\* step has taken one step and has stopped at the next check
C21_Witness ==
    \E u \in Units :
       /\ sigStep[u] = 0
       /\ unit[u].i = 1
       /\ unit[u].pc = "r107"
       /\ unit[u].output = StoppedOutput(1)
       /\ config[unit[u].agent].max_iterations > 1

\* the latest thread created for agent a, if any (units are numbered in the
\* order of their creation)
LatestUnit(a) ==
    LET us == {u \in Units : unit[u].agent = a} IN
    IF us = {} THEN NoUnit ELSE CHOOSE u \in us : \A v \in us : v <= u

\* C22: what a reader of an agent's state finds is never partially updated:
\* with status running the iteration counter is the number of steps the
\* current run has begun and there is neither an end timestamp nor an error
\* message, and with status completed or error the end timestamp is set
C22_StateReadConsistent ==
    \A a \in Agents :
       /\ AgentIsRunning(a) =>
             /\ LatestUnit(a) # NoUnit
             /\ state[a].iteration_count = unit[LatestUnit(a)].i
             /\ state[a].end_time = NoTime
             /\ state[a].error_message = NoError
       /\ state[a].status \in {"completed", "error"} =>
             state[a].end_time # NoTime

\* C23: before any operation every agent has status idle, no timestamps, no
\* error message and counter 0, and is not running; execute_agent, which
\* asks agent.is_running(), is refused exactly when the status is running;
\* and reset, from whatever state, leaves the state of a new agent
C23_NewAndResetAreIdle ==
    /\ [](calls = 0 =>
            \A a \in Agents :
               /\ state[a].status = "idle"
               /\ ~AgentIsRunning(a))
    /\ [][\A c \in Callers, a \in Agents :
            Invokes(c, "execute", a) =>
               (caller'[c].ret.val = "RuntimeError"
                   <=> state[a].status = "running")]_vars
    /\ [][\A c \in Callers, a \in Agents :
            Invokes(c, "reset", a) =>
               /\ state'[a] = [status |-> "idle", iteration_count |-> 0,
                               start_time |-> NoTime, end_time |-> NoTime,
                               error_message |-> NoError]
               /\ ~AgentIsRunning(a)']_vars

\* C23 witness: a reset has returned after a run of the agent that faulted
\* has ended, and the agent's state is that of a new agent
C23_Witness ==
    \E c \in Callers, a \in Agents :
       /\ caller[c].ret = [op |-> "reset", agent |-> a, val |-> "None"]
       /\ results[a] # NoUnit
       /\ unit[results[a]].pc = "done"
       /\ get_result(a).error # NoError
       /\ state[a] = [status |-> "idle", iteration_count |-> 0,
                      start_time |-> NoTime, end_time |-> NoTime,
                      error_message |-> NoError]

\* C24: a load that follows a save (that of Project.create included) returns
\* a project whose agent ids are exactly those the saved project held; ids
\* are a set, so an agent added twice is held once, and a removed agent is
\* neither in memory nor on disk
C24_LoadReturnsSavedAgents ==
    /\ [][last.op \in {"save", "create"} /\ last'.op = "load" =>
             /\ last'.ret = "None"
             /\ project'.agents = project.agents]_vars
    /\ [][last'.op = "remove_agent" /\ last' # last =>
             \A a \in AgentIds :
                a \in project.agents /\ a \notin project'.agents =>
                   a \notin files'.agents]_vars

\* the operations ops applied to text from left to right, each to the
\* outcome of the one before; an operation that is neither uppercase nor
\* prefix ends the pipeline with ValueError
RECURSIVE Pipeline(_, _)
Pipeline(text, ops) ==
    IF ops = <<>> THEN [kind |-> "return", text |-> text]
    ELSE LET op == Head(ops) IN
         IF op.type = "uppercase"
            THEN Pipeline([k \in 1..Len(text) |->
                             IF text[k] = "h" THEN "H" ELSE text[k]],
                          Tail(ops))
         ELSE IF op.type = "prefix"
            THEN Pipeline(IF op.params = {} THEN text ELSE <<"h">> \o text,
                          Tail(ops))
         ELSE [kind |-> "ValueError", text |-> <<>>]

\* C25: run() ends with the outcome of the pipeline of the configured
\* operations on input_text: the text they yield in list order (input_text
\* itself when there are none), or ValueError at the first operation of an
\* unknown type
C25_RunAppliesOperationsInOrder ==
    app.pc = "done" => app.ret = Pipeline(app.input_text, app.operations)

\* C25 witness: uppercase followed by a prefix has been run on a text of
\* lower-case characters, and the prefix is left in lower case
C25_Witness ==
    /\ app.pc = "done"
    /\ app.input_text = <<"h">>
    /\ app.operations
          = <<[type |-> "uppercase", params |-> {}],
              [type |-> "prefix", params |-> {<<"value", <<"h">>>>}]>>
    /\ app.ret = [kind |-> "return", text |-> <<"h", "H">>]

\* a unit that has been started and has not reached its own cleanup (line
\* 133) yet
Running(u) ==
    unit[u].pc \in {"r99", "x160", "x163", "r107", "r112", "r113", "r122",
                    "r123", "r124", "r128"}

\* C26: every unit that has been started and has not reached its cleanup is
\* the thread running_agents holds for its agent, and its event is the one
\* stop_events holds for its agent
C26_LiveUnitIsRegistered ==
    \A u \in Units :
       Running(u) =>
          /\ is_running(unit[u].agent)
          /\ running_agents[unit[u].agent] = u
          /\ stop_events[unit[u].agent] = u

\* C27: every stop_agent that has ended has returned True or False
C27_StopReturnsBoolean ==
    \A c \in Callers :
       caller[c].ret.op = "stop" => caller[c].ret.val \in {"True", "False"}

C29_EveryRunStoresOneResult ==
    /\ [][\A u \in Units :
            /\ Stores(u) =>
                  /\ results'[unit[u].agent] = u
                  /\ result'[u].agent_id = unit[u].agent
            /\ unit[u].pc # "done" /\ unit'[u].pc = "done" => Stored(u)]_vars
    /\ [](\A u \in Units : unit[u].pc = "done" => unit[u].exc = "None")
    /\ [](\A u \in Units :
            Stored(u) /\ result[u].error # NoError =>
               /\ ~result[u].success
               /\ result[u].iterations >= unit[u].i - 1)

\* C30: when a unit whose loop ended at the check of its stop event writes
\* its terminal status, the status is completed and the agent has no error
\* message, its result has no error text and carries the "stopped" output,
\* and the iteration that output names is the agent's iteration counter and
\* the iterations of the result
C30_CancelledRunIsCompleted ==
    [][\A u \in Units :
         /\ unit[u].pc = "r112" /\ unit'[u].pc = "r113"
         /\ unit[u].output.kind = "Execution stopped at iteration"
         => LET a == unit[u].agent IN
            /\ state'[a].status = "completed"
            /\ state'[a].error_message = NoError
            /\ result[u].error = NoError
            /\ result[u].output = unit[u].output
            /\ result[u].iterations = unit[u].output.n
            /\ state'[a].iteration_count = unit[u].output.n]_vars

\* C31: the result a run has stored and the state the run has left agree, as
\* long as the run is the agent's latest and its result is the stored one:
\* success is True exactly with status completed, the error text is set
\* exactly with status error and is then the agent's error_message, and no
\* result has success True together with an error text
C31_ResultAgreesWithState ==
    \A u \in Units :
       LET a == unit[u].agent IN
       /\ Stored(u) \/ unit[u].pc = "done"
       /\ LatestUnit(a) = u
       /\ results[a] = u
       => /\ result[u].success <=> state[a].status = "completed"
          /\ result[u].error # NoError <=> state[a].status = "error"
          /\ result[u].error # NoError =>
                result[u].error = state[a].error_message
          /\ ~(result[u].success /\ result[u].error # NoError)

\* C32: an agent with status running or completed has no error message, and
\* an agent with status running has no end timestamp
C32_NoStaleErrorOrEndTime ==
    \A a \in Agents :
       /\ state[a].status \in {"running", "completed"} =>
             state[a].error_message = NoError
       /\ AgentIsRunning(a) => state[a].end_time = NoTime

\* C33: whenever every thread that was created has ended and no caller is
\* inside execute_agent or stop_agent, running_agents and stop_events are
\* both empty
C33_NoEntryLeftBehind ==
    /\ \A u \in Units : unit[u].pc \in {"unused", "done"}
    /\ \A c \in Callers : caller[c].pc = "idle"
    => \A a \in Agents :
          /\ running_agents[a] = NoUnit
          /\ stop_events[a] = NoUnit

\* C33 witness: a run that was cancelled has ended after the caller's
\* stop_agent, no thread is left and no operation is in progress, and both
\* tables are empty
C33_Witness ==
    /\ \A u \in Units : unit[u].pc \in {"unused", "done"}
    /\ \A c \in Callers : caller[c].pc = "idle"
    /\ \E c \in Callers : caller[c].ret.op = "stop"
    /\ \E u \in Units :
          /\ unit[u].pc = "done"
          /\ results[unit[u].agent] = u
          /\ result[u].output.kind = "Execution stopped at iteration"
    /\ \A a \in Agents :
          /\ running_agents[a] = NoUnit
          /\ stop_events[a] = NoUnit

====
